---- MODULE Spec2Model ----
(***************************************************************************)
(* The agent workflow controller of the AI Travel Concierge                *)
(* (src/app/state.py): the Phase enumeration, ErrorContext, the            *)
(* StateTransition log and the AgentState aggregate with its public        *)
(* operations.                                                             *)
(*                                                                         *)
(* Optional values (Optional[X] in the source) are sequences of length     *)
(* zero or one: None is the empty sequence, a present value x is <<x>>.    *)
(* A dict is kept in insertion order as a sequence of [k, v] entries       *)
(* (validation checks) or as a function over its keys (metadata).          *)
(* The wall-clock readings (created_at, updated_at, the timestamp of a     *)
(* record or of an ErrorContext) are written and never read back by any    *)
(* operation; they are left out of the state.                              *)
(***************************************************************************)
EXTENDS Integers, Sequences, FiniteSets, TLC

\* ------------------------------------------------------------------ bounds
\* Longest transition_history explored with the narrow inputs (Spec).
MaxHistory == 6
\* Longest transition_history explored with the wide inputs (SpecWide).
MaxWideHistory == 4
\* Longest transition_history explored with advance() and
\* validate_tool_results only (SpecGate).
MaxGateHistory == 7
\* Longest log before the compared reset(), and the most records either
\* controller appends after it (SpecTwin).
MaxPreHistory == 1
MaxTwinSteps == 2
\* Largest retry_count drawn for the pure-function specification.
MaxProbeRetry == 4

\* ------------------------------------------------------- program constants
\* ErrorContext.max_retries default.
DefaultMaxRetries == 3

\* ------------------------------------------------------------------ inputs
\* Wide inputs: two tools that fail, two that succeed, and two questions.
\* The empty string is a legal clarification question (a str like any other).
ToolNames == {"search", "weather"}
SuccessTools == {"weather", "fx"}
Questions == {"", "What is your destination?"}
\* Narrow inputs, for the long runs.
OneTool == {"search"}
OneSuccessTool == {"weather"}
OneQuestion == {"What is your destination?"}
ErrorMessages == {"timeout"}
ErrorTypes == {"ToolExecutionError"}
Answers == {"Paris"}
AdvanceReasons == {"Normal progression"}
\* validation_checks arguments: entries in insertion order.
CheckInputs ==
    { <<>>,
      <<[k |-> "weather", v |-> TRUE], [k |-> "fx", v |-> TRUE]>>,
      <<[k |-> "weather", v |-> TRUE], [k |-> "search", v |-> FALSE]>> }

\* The requirements extracted from the sample request of main().
Requirements ==
    { [destination |-> "Paris", dates |-> "2026-06-01 to 2026-06-08",
       card |-> "BankGold"] }

\* What extract_requirements_from_input can return: extracted values, the
\* "Not specified" default of each key, the "Paris" fallback.
ExtractedRequirements ==
    { [destination |-> d, dates |-> t, card |-> c] :
        d \in {"Paris", "Tokyo", "Not specified"},
        t \in {"2026-06-01 to 2026-06-08", "Not specified"},
        c \in {"BankGold", "Not specified"} }

\* Every validation_checks dict of at most two entries over three keys.
CheckKeys == {"weather", "fx", "search"}
CheckEntries == { [k |-> key, v |-> b] : key \in CheckKeys, b \in BOOLEAN }
GateChecks ==
    { <<>> } \cup { <<e>> : e \in CheckEntries }
    \cup { p \in { <<e1, e2>> : e1 \in CheckEntries, e2 \in CheckEntries } :
              p[1].k /= p[2].k }

\* ------------------------------------------------------------------- Phase
Phase ==
    { "Init", "ClarifyRequirements", "PlanTools", "ExecuteTools",
      "Synthesize", "Done",
      "AwaitingUserClarification", "HandlingToolError", "ValidatingResults",
      "RetryingTools", "EscalatingError",
      "CheckingAvailability", "TranslatingContent", "SchedulingEvent" }

None == <<>>
Some(x) == <<x>>
IsSet(opt) == opt /= None
Val(opt) == opt[1]

\* Python truth value of an Optional[str]: None and "" are both false.
Truthy(optstr) == optstr /= None /\ Val(optstr) /= ""

\* --------------------------------------------------------------- variables
VARIABLES
    phase,                \* self.phase
    destination,          \* self.destination
    dates,                \* self.dates
    card,                 \* self.card
    tools_called,         \* self.tools_called
    transition_history,   \* self.transition_history
    current_error,        \* self.current_error
    clarification_needed, \* self.clarification_needed
    validation_results,   \* self.validation_results
    metadata,             \* self.metadata
    successful_tools,     \* self.successful_tools
    failed_tools,         \* self.failed_tools
    ret,                  \* outcome of the last call (see Outcome)
    pc,                   \* position of the caller ("none": no fixed flow)
    twin                  \* a second controller set aside (None: there is none)

requestVars == <<destination, dates, card>>
toolVars == <<tools_called, successful_tools, failed_tools>>
vars == <<phase, destination, dates, card, tools_called, transition_history,
          current_error, clarification_needed, validation_results, metadata,
          successful_tools, failed_tools, ret, pc, twin>>
driverVars == <<pc, twin>>

\* ------------------------------------------------------------ ErrorContext
ErrorContext(error_type, error_message, failed_tool, retry_count) ==
    [ error_type |-> error_type,
      error_message |-> error_message,
      failed_tool |-> failed_tool,
      retry_count |-> retry_count,
      max_retries |-> DefaultMaxRetries ]

\* Mutant: the comparison admits retry_count = max_retries.
can_retry_Inclusive(e) == e.retry_count <= e.max_retries

\* Mutant: the budget ends one retry early.
can_retry_OneFewer(e) == e.retry_count + 1 < e.max_retries

can_retry(e) == e.retry_count < e.max_retries

\* Mutant: the two phases are stored in each other's field.
StateTransition_Swapped(from_phase, to_phase, reason, md) ==
    [ from_phase |-> to_phase,
      to_phase |-> from_phase,
      reason |-> reason,
      metadata |-> md ]

\* --------------------------------------------------------- StateTransition
StateTransition(from_phase, to_phase, reason, md) ==
    [ from_phase |-> from_phase,
      to_phase |-> to_phase,
      reason |-> reason,
      metadata |-> md ]

\* ------------------------------------------------- _determine_next_phase
\* Mutant: ExecuteTools is followed by Synthesize, skipping validation.
phase_transitions_SkipValidation ==
    [ p \in Phase \ {"EscalatingError"} |->
        CASE p = "Init" -> Some("ClarifyRequirements")
          [] p = "ClarifyRequirements" -> Some("PlanTools")
          [] p = "PlanTools" -> Some("ExecuteTools")
          [] p = "ExecuteTools" -> Some("Synthesize")
          [] p = "ValidatingResults" -> Some("Synthesize")
          [] p = "Synthesize" -> Some("Done")
          [] p = "RetryingTools" -> Some("ExecuteTools")
          [] p = "AwaitingUserClarification" -> Some("ClarifyRequirements")
          [] p = "CheckingAvailability" -> Some("PlanTools")
          [] p = "TranslatingContent" -> Some("Synthesize")
          [] p = "SchedulingEvent" -> Some("Done")
          [] p = "HandlingToolError" -> Some("RetryingTools")
          [] p = "Done" -> None ]

\* Mutant: RetryingTools is followed by EscalatingError.
phase_transitions_RetryEscalates ==
    [ p \in Phase \ {"EscalatingError"} |->
        CASE p = "Init" -> Some("ClarifyRequirements")
          [] p = "ClarifyRequirements" -> Some("PlanTools")
          [] p = "PlanTools" -> Some("ExecuteTools")
          [] p = "ExecuteTools" -> Some("ValidatingResults")
          [] p = "ValidatingResults" -> Some("Synthesize")
          [] p = "Synthesize" -> Some("Done")
          [] p = "RetryingTools" -> Some("EscalatingError")
          [] p = "AwaitingUserClarification" -> Some("ClarifyRequirements")
          [] p = "CheckingAvailability" -> Some("PlanTools")
          [] p = "TranslatingContent" -> Some("Synthesize")
          [] p = "SchedulingEvent" -> Some("Done")
          [] p = "HandlingToolError" -> Some("RetryingTools")
          [] p = "Done" -> None ]

\* Mutant: Done is followed by Init.
phase_transitions_DoneRestarts ==
    [ p \in Phase \ {"EscalatingError"} |->
        CASE p = "Init" -> Some("ClarifyRequirements")
          [] p = "ClarifyRequirements" -> Some("PlanTools")
          [] p = "PlanTools" -> Some("ExecuteTools")
          [] p = "ExecuteTools" -> Some("ValidatingResults")
          [] p = "ValidatingResults" -> Some("Synthesize")
          [] p = "Synthesize" -> Some("Done")
          [] p = "RetryingTools" -> Some("ExecuteTools")
          [] p = "AwaitingUserClarification" -> Some("ClarifyRequirements")
          [] p = "CheckingAvailability" -> Some("PlanTools")
          [] p = "TranslatingContent" -> Some("Synthesize")
          [] p = "SchedulingEvent" -> Some("Done")
          [] p = "HandlingToolError" -> Some("RetryingTools")
          [] p = "Done" -> Some("Init") ]

\* Mutant: PlanTools is followed by CheckingAvailability.
phase_transitions_ChecksAvailability ==
    [ p \in Phase \ {"EscalatingError"} |->
        CASE p = "Init" -> Some("ClarifyRequirements")
          [] p = "ClarifyRequirements" -> Some("PlanTools")
          [] p = "PlanTools" -> Some("CheckingAvailability")
          [] p = "ExecuteTools" -> Some("ValidatingResults")
          [] p = "ValidatingResults" -> Some("Synthesize")
          [] p = "Synthesize" -> Some("Done")
          [] p = "RetryingTools" -> Some("ExecuteTools")
          [] p = "AwaitingUserClarification" -> Some("ClarifyRequirements")
          [] p = "CheckingAvailability" -> Some("PlanTools")
          [] p = "TranslatingContent" -> Some("Synthesize")
          [] p = "SchedulingEvent" -> Some("Done")
          [] p = "HandlingToolError" -> Some("RetryingTools")
          [] p = "Done" -> None ]

\* The phase_transitions dict; a phase that is not a key has no entry.
phase_transitions ==
    [ p \in Phase \ {"EscalatingError"} |->
        CASE p = "Init" -> Some("ClarifyRequirements")
          [] p = "ClarifyRequirements" -> Some("PlanTools")
          [] p = "PlanTools" -> Some("ExecuteTools")
          [] p = "ExecuteTools" -> Some("ValidatingResults")
          [] p = "ValidatingResults" -> Some("Synthesize")
          [] p = "Synthesize" -> Some("Done")
          [] p = "RetryingTools" -> Some("ExecuteTools")
          [] p = "AwaitingUserClarification" -> Some("ClarifyRequirements")
          [] p = "CheckingAvailability" -> Some("PlanTools")
          [] p = "TranslatingContent" -> Some("Synthesize")
          [] p = "SchedulingEvent" -> Some("Done")
          [] p = "HandlingToolError" -> Some("RetryingTools")
          [] p = "Done" -> None ]

\* dict.get(key): None for a missing key.
DictGet(d, key) == IF key \in DOMAIN d THEN d[key] ELSE None

\* Mutant: in RetryingTools a retryable error lets the table decide.
_determine_next_phase_RetryExecutes(ph, err, clar) ==
    IF IsSet(err) /\ can_retry(Val(err)) /\ ph /= "RetryingTools"
    THEN Some("RetryingTools")
    ELSE IF IsSet(err) /\ ~can_retry(Val(err)) THEN Some("EscalatingError")
    ELSE IF Truthy(clar) /\ ~IsSet(err) THEN Some("AwaitingUserClarification")
    ELSE DictGet(phase_transitions, ph)

_determine_next_phase(ph, err, clar) ==
    IF IsSet(err) /\ can_retry(Val(err)) THEN Some("RetryingTools")
    ELSE IF IsSet(err) /\ ~can_retry(Val(err)) THEN Some("EscalatingError")
    ELSE IF Truthy(clar) THEN Some("AwaitingUserClarification")
    ELSE DictGet(phase_transitions, ph)

\* ------------------------------------------------------ _can_transition_to
\* Mutant: the Init entry also lists Synthesize.
_get_valid_next_phases_InitSynthesize(ph) ==
    CASE ph = "Init" -> {"ClarifyRequirements", "Synthesize"}
      [] ph = "ClarifyRequirements" -> {"PlanTools", "AwaitingUserClarification"}
      [] ph = "PlanTools" -> {"ExecuteTools", "CheckingAvailability"}
      [] ph = "ExecuteTools" -> {"ValidatingResults", "HandlingToolError", "Synthesize"}
      [] ph = "ValidatingResults" -> {"Synthesize", "RetryingTools"}
      [] ph = "Synthesize" -> {"Done", "TranslatingContent"}
      [] ph = "RetryingTools" -> {"ExecuteTools", "EscalatingError"}
      [] ph = "HandlingToolError" -> {"RetryingTools", "EscalatingError"}
      [] ph = "AwaitingUserClarification" -> {"ClarifyRequirements"}
      [] ph = "CheckingAvailability" -> {"PlanTools", "SchedulingEvent"}
      [] ph = "TranslatingContent" -> {"Synthesize"}
      [] ph = "SchedulingEvent" -> {"Done"}
      [] ph = "EscalatingError" -> {"Done"}
      [] ph = "Done" -> {"Init"}
      [] OTHER -> {}

_get_valid_next_phases(ph) ==
    CASE ph = "Init" -> {"ClarifyRequirements"}
      [] ph = "ClarifyRequirements" -> {"PlanTools", "AwaitingUserClarification"}
      [] ph = "PlanTools" -> {"ExecuteTools", "CheckingAvailability"}
      [] ph = "ExecuteTools" -> {"ValidatingResults", "HandlingToolError", "Synthesize"}
      [] ph = "ValidatingResults" -> {"Synthesize", "RetryingTools"}
      [] ph = "Synthesize" -> {"Done", "TranslatingContent"}
      [] ph = "RetryingTools" -> {"ExecuteTools", "EscalatingError"}
      [] ph = "HandlingToolError" -> {"RetryingTools", "EscalatingError"}
      [] ph = "AwaitingUserClarification" -> {"ClarifyRequirements"}
      [] ph = "CheckingAvailability" -> {"PlanTools", "SchedulingEvent"}
      [] ph = "TranslatingContent" -> {"Synthesize"}
      [] ph = "SchedulingEvent" -> {"Done"}
      [] ph = "EscalatingError" -> {"Done"}
      [] ph = "Done" -> {"Init"}
      [] OTHER -> {}

error_phases ==
    {"HandlingToolError", "EscalatingError", "AwaitingUserClarification"}

_can_transition_to(ph, new_phase) ==
    IF new_phase \in error_phases THEN TRUE
    ELSE IF ph = "Done" /\ new_phase = "Init" THEN TRUE
    ELSE new_phase \in _get_valid_next_phases(ph)

\* ---------------------------------------------------------- _transition_to
\* A reason is the sequence of the parts its f-string is put together from
\* (a plain reason is a sequence of one part), a transition's metadata dict
\* is a record.
\* The call self._transition_to(new_phase, reason, md) made when the fields
\* current_error and clarification_needed hold err and clar (the caller may
\* have assigned them just before).  An invalid move raises before anything
\* is written; a valid one appends the record, moves the phase and applies
\* the phase-entry clearing.
\* Mutant: the record is appended before the move is validated.
_transition_to_LogFirst(new_phase, reason, md, err, clar) ==
    /\ transition_history' =
           Append(transition_history,
                  StateTransition(phase, new_phase, reason, md))
    /\ IF ~(new_phase \in error_phases
            \/ (phase = "Done" /\ new_phase = "Init")
            \/ new_phase \in _get_valid_next_phases(phase))
       THEN /\ phase' = phase
            /\ current_error' = err
            /\ clarification_needed' = clar
       ELSE /\ phase' = new_phase
            /\ clarification_needed' =
                   IF new_phase = "ClarifyRequirements" THEN None ELSE clar
            /\ current_error' =
                   IF new_phase = "ExecuteTools" THEN None ELSE err

\* Mutant: a move into an error phase is made without a record.
_transition_to_ErrorsUnlogged(new_phase, reason, md, err, clar) ==
    IF ~_can_transition_to(phase, new_phase)
    THEN /\ phase' = phase
         /\ transition_history' = transition_history
         /\ current_error' = err
         /\ clarification_needed' = clar
    ELSE /\ transition_history' =
                IF new_phase \in error_phases
                THEN transition_history
                ELSE Append(transition_history,
                            StateTransition(phase, new_phase, reason, md))
         /\ phase' = new_phase
         /\ clarification_needed' =
                IF new_phase = "ClarifyRequirements" THEN None ELSE clar
         /\ current_error' =
                IF new_phase = "ExecuteTools" THEN None ELSE err

\* Mutant: the phase-entry clearing is left out.
_transition_to_NoEntryClearing(new_phase, reason, md, err, clar) ==
    IF ~_can_transition_to(phase, new_phase)
    THEN /\ phase' = phase
         /\ transition_history' = transition_history
         /\ current_error' = err
         /\ clarification_needed' = clar
    ELSE /\ transition_history' =
                Append(transition_history,
                       StateTransition(phase, new_phase, reason, md))
         /\ phase' = new_phase
         /\ clarification_needed' = clar
         /\ current_error' = err

_transition_to(new_phase, reason, md, err, clar) ==
    IF ~_can_transition_to(phase, new_phase)
    THEN /\ phase' = phase
         /\ transition_history' = transition_history
         /\ current_error' = err
         /\ clarification_needed' = clar
    ELSE /\ transition_history' =
                Append(transition_history,
                       StateTransition(phase, new_phase, reason, md))
         /\ phase' = new_phase
         /\ clarification_needed' =
                IF new_phase = "ClarifyRequirements" THEN None ELSE clar
         /\ current_error' =
                IF new_phase = "ExecuteTools" THEN None ELSE err

\* Whether that call raises ValueError("Invalid transition ...").
Raises(new_phase) == ~_can_transition_to(phase, new_phase)

\* What the caller observes of a call: the method, its arguments, the phase
\* it asked _transition_to for (None when it asked for none), whether
\* ValueError was raised, and the returned value (None when nothing is
\* returned).
Outcome(op, args, move, raised, value) ==
    [op |-> op, args |-> args, move |-> move, raised |-> raised,
     value |-> value]

\* -------------------------------------------------------------------- Init
\* AgentState.__init__
Init ==
    /\ phase = "Init"
    /\ destination = None
    /\ dates = None
    /\ card = None
    /\ tools_called = <<>>
    /\ transition_history = <<>>
    /\ current_error = None
    /\ clarification_needed = None
    /\ validation_results = <<>>
    /\ metadata = <<>>
    /\ successful_tools = <<>>
    /\ failed_tools = <<>>
    /\ ret = Outcome("__init__", <<>>, None, FALSE, None)
    /\ pc = "none"
    /\ twin = None

\* The caller stores the extracted requirements in the public fields.
assign_request(requirements) ==
    /\ destination' = Some(requirements.destination)
    /\ dates' = Some(requirements.dates)
    /\ card' = Some(requirements.card)
    /\ ret' = Outcome("assign_request", <<requirements>>, None, FALSE, None)
    /\ UNCHANGED <<phase, tools_called, transition_history, current_error,
                   clarification_needed, validation_results, metadata,
                   successful_tools, failed_tools>>

\* ----------------------------------------------------------------- advance
advance(reason) ==
    LET next_phase == _determine_next_phase(phase, current_error,
                                            clarification_needed)
    IN  /\ IF IsSet(next_phase)
           THEN /\ _transition_to(Val(next_phase), <<reason>>, <<>>,
                                  current_error, clarification_needed)
                /\ ret' = Outcome("advance", <<reason>>, next_phase,
                                  Raises(Val(next_phase)), None)
           ELSE /\ UNCHANGED <<phase, transition_history, current_error,
                               clarification_needed>>
                /\ ret' = Outcome("advance", <<reason>>, None, FALSE, None)
        /\ UNCHANGED <<requestVars, toolVars, validation_results, metadata>>

\* ------------------------------------------------------- handle_tool_error
InList(x, list) == \E i \in 1..Len(list) : list[i] = x

\* Mutant: the membership test is dropped.
AppendIfAbsent_Always(list, x) == Append(list, x)

\* "if x not in list: list.append(x)"
AppendIfAbsent(list, x) == IF InList(x, list) THEN list ELSE Append(list, x)

\* Mutant: the count is carried over to a newly failing tool.
UpdatedErrorContext_Accumulate(cur, tool_name, error_message, error_type) ==
    IF IsSet(cur)
    THEN Some([Val(cur) EXCEPT !.retry_count = @ + 1,
                               !.failed_tool = tool_name])
    ELSE Some(ErrorContext(error_type, error_message, tool_name, 0))

\* "Create or update error context": the value of current_error after the
\* first statement of handle_tool_error.
UpdatedErrorContext(cur, tool_name, error_message, error_type) ==
    IF IsSet(cur) /\ Val(cur).failed_tool = tool_name
    THEN Some([Val(cur) EXCEPT !.retry_count = @ + 1])
    ELSE Some(ErrorContext(error_type, error_message, tool_name, 0))

handle_tool_error(tool_name, error_message, error_type) ==
    LET err == UpdatedErrorContext(current_error, tool_name,
                                   error_message, error_type)
    IN  /\ failed_tools' = AppendIfAbsent(failed_tools, tool_name)
        /\ _transition_to("HandlingToolError",
                          <<"Tool '", tool_name, "' failed: ", error_message>>,
                          [tool |-> tool_name, error |-> error_message],
                          err, clarification_needed)
        /\ ret' = Outcome("handle_tool_error",
                          <<tool_name, error_message, error_type>>,
                          Some("HandlingToolError"),
                          Raises("HandlingToolError"), None)
        /\ UNCHANGED <<requestVars, tools_called, successful_tools,
                       validation_results, metadata>>

\* --------------------------------------------------- request_clarification
request_clarification(clarification_question) ==
    /\ _transition_to("AwaitingUserClarification",
                      <<"Need user clarification">>,
                      [question |-> clarification_question],
                      current_error, Some(clarification_question))
    /\ ret' = Outcome("request_clarification", <<clarification_question>>,
                      Some("AwaitingUserClarification"),
                      Raises("AwaitingUserClarification"), None)
    /\ UNCHANGED <<requestVars, toolVars, validation_results, metadata>>

\* --------------------------------------------------- provide_clarification
\* Mutant: the item assignment is lost.
DictSet_Lost(d, key, value) == d

\* d[key] = value
DictSet(d, key, value) ==
    [k \in DOMAIN d \cup {key} |-> IF k = key THEN value ELSE d[k]]

provide_clarification(clarification_response) ==
    /\ metadata' = DictSet(metadata, "last_clarification",
                           clarification_response)
    /\ _transition_to("ClarifyRequirements",
                      <<"User provided clarification">>,
                      [response |-> clarification_response],
                      current_error, None)
    /\ ret' = Outcome("provide_clarification", <<clarification_response>>,
                      Some("ClarifyRequirements"),
                      Raises("ClarifyRequirements"), None)
    /\ UNCHANGED <<requestVars, toolVars, validation_results>>

\* ------------------------------------------------------- mark_tool_success
\* Mutant: a new tool is put at the front of both lists.
mark_tool_success_Prepends(tool_name) ==
    /\ tools_called' = IF InList(tool_name, tools_called) THEN tools_called
                       ELSE <<tool_name>> \o tools_called
    /\ successful_tools' = IF InList(tool_name, successful_tools)
                           THEN successful_tools
                           ELSE <<tool_name>> \o successful_tools
    /\ ret' = Outcome("mark_tool_success", <<tool_name>>, None, FALSE, None)
    /\ UNCHANGED <<phase, requestVars, transition_history, current_error,
                   clarification_needed, validation_results, metadata,
                   failed_tools>>

mark_tool_success(tool_name) ==
    /\ tools_called' = AppendIfAbsent(tools_called, tool_name)
    /\ successful_tools' = AppendIfAbsent(successful_tools, tool_name)
    /\ ret' = Outcome("mark_tool_success", <<tool_name>>, None, FALSE, None)
    /\ UNCHANGED <<phase, requestVars, transition_history, current_error,
                   clarification_needed, validation_results, metadata,
                   failed_tools>>

\* --------------------------------------------------- validate_tool_results
\* all(validation_checks.values())
AllValues(checks) == \A i \in 1..Len(checks) : checks[i].v

\* Mutant: every key is collected.
FailedChecks_AllKeys(checks) == [i \in 1..Len(checks) |-> checks[i].k]

RECURSIVE FailedChecks(_)
\* [k for k, v in validation_checks.items() if not v]
FailedChecks(checks) ==
    IF checks = <<>> THEN <<>>
    ELSE (IF Head(checks).v THEN <<>> ELSE <<Head(checks).k>>)
         \o FailedChecks(Tail(checks))

validate_tool_results(validation_checks) ==
    LET all_valid == AllValues(validation_checks)
        failed_checks == FailedChecks(validation_checks)
        target == IF all_valid THEN "Synthesize" ELSE "RetryingTools"
    IN  /\ validation_results' = validation_checks
        /\ IF all_valid
           THEN _transition_to("Synthesize", <<"All validations passed">>,
                               [validations |-> validation_checks],
                               current_error, clarification_needed)
           ELSE _transition_to("RetryingTools",
                               <<"Validation failed: ">> \o failed_checks,
                               [failed_checks |-> failed_checks],
                               current_error, clarification_needed)
        /\ ret' = Outcome("validate_tool_results", <<validation_checks>>,
                          Some(target), Raises(target),
                          IF Raises(target) THEN None ELSE Some(all_valid))
        /\ UNCHANGED <<requestVars, toolVars, metadata>>

\* ------------------------------------------------------------------- reset
\* Mutant: metadata survives the reset.
reset_KeepsMetadata ==
    /\ phase' = "Init"
    /\ destination' = None
    /\ dates' = None
    /\ card' = None
    /\ tools_called' = <<>>
    /\ successful_tools' = <<>>
    /\ failed_tools' = <<>>
    /\ current_error' = None
    /\ clarification_needed' = None
    /\ validation_results' = <<>>
    /\ metadata' = metadata
    /\ transition_history' =
           Append(transition_history,
                  StateTransition(phase', "Init", <<"Manual reset">>, <<>>))
    /\ ret' = Outcome("reset", <<>>, None, FALSE, None)

\* Mutant: the active error survives the reset.
reset_KeepsError ==
    /\ phase' = "Init"
    /\ destination' = None
    /\ dates' = None
    /\ card' = None
    /\ tools_called' = <<>>
    /\ successful_tools' = <<>>
    /\ failed_tools' = <<>>
    /\ current_error' = current_error
    /\ clarification_needed' = None
    /\ validation_results' = <<>>
    /\ metadata' = <<>>
    /\ transition_history' =
           Append(transition_history,
                  StateTransition(phase', "Init", <<"Manual reset">>, <<>>))
    /\ ret' = Outcome("reset", <<>>, None, FALSE, None)

\* Mutant: the log is restarted with the reset record.
reset_StartsNewLog ==
    /\ phase' = "Init"
    /\ destination' = None
    /\ dates' = None
    /\ card' = None
    /\ tools_called' = <<>>
    /\ successful_tools' = <<>>
    /\ failed_tools' = <<>>
    /\ current_error' = None
    /\ clarification_needed' = None
    /\ validation_results' = <<>>
    /\ metadata' = <<>>
    /\ transition_history' =
           <<StateTransition(phase', "Init", <<"Manual reset">>, <<>>)>>
    /\ ret' = Outcome("reset", <<>>, None, FALSE, None)

\* self.phase is assigned Init before the record is built, so the record's
\* from_phase reads the phase after the assignment.
reset ==
    /\ phase' = "Init"
    /\ destination' = None
    /\ dates' = None
    /\ card' = None
    /\ tools_called' = <<>>
    /\ successful_tools' = <<>>
    /\ failed_tools' = <<>>
    /\ current_error' = None
    /\ clarification_needed' = None
    /\ validation_results' = <<>>
    /\ metadata' = <<>>
    /\ transition_history' =
           Append(transition_history,
                  StateTransition(phase', "Init", <<"Manual reset">>, <<>>))
    /\ ret' = Outcome("reset", <<>>, None, FALSE, None)

\* -------------------------------------------------------- status predicates
is_in_error_state(ph) ==
    ph \in {"HandlingToolError", "RetryingTools", "EscalatingError"}

is_awaiting_user(ph) == ph = "AwaitingUserClarification"

\* Mutant: Done is not a blocking phase.
can_proceed_DoneProceeds(ph) ==
    ph \notin {"AwaitingUserClarification", "EscalatingError"}

blocking_phases == {"AwaitingUserClarification", "EscalatingError", "Done"}

can_proceed(ph) == ph \notin blocking_phases

\* ---------------------------------------------------------- specification
\* The public operations called in any order on a fresh controller, with
\* the narrow inputs; a call that would make the log longer than
\* MaxHistory is not explored.
LogFits(max) == Len(transition_history') <= max

Next ==
    \/ \E reason \in AdvanceReasons :
          advance(reason) /\ LogFits(MaxHistory)
          /\ UNCHANGED driverVars
    \/ \E t \in OneTool, m \in ErrorMessages, ty \in ErrorTypes :
          handle_tool_error(t, m, ty) /\ LogFits(MaxHistory)
          /\ UNCHANGED driverVars
    \/ \E q \in OneQuestion :
          request_clarification(q) /\ LogFits(MaxHistory)
          /\ UNCHANGED driverVars
    \/ \E a \in Answers :
          provide_clarification(a) /\ LogFits(MaxHistory)
          /\ UNCHANGED driverVars
    \/ \E t \in OneSuccessTool : mark_tool_success(t) /\ UNCHANGED driverVars
    \/ \E c \in CheckInputs :
          validate_tool_results(c) /\ LogFits(MaxHistory)
          /\ UNCHANGED driverVars
    \/ reset /\ LogFits(MaxHistory)
          /\ UNCHANGED driverVars

Spec == Init /\ [][Next]_vars

\* The same operations with the wide inputs and the caller's assignment
\* of the request fields, called while the log is
\* shorter than MaxWideHistory.
LogShort == Len(transition_history) < MaxWideHistory

NextWide ==
    \/ \E reason \in AdvanceReasons : LogShort /\ advance(reason) /\ UNCHANGED driverVars
    \/ \E t \in ToolNames, m \in ErrorMessages, ty \in ErrorTypes :
          LogShort /\ handle_tool_error(t, m, ty) /\ UNCHANGED driverVars
    \/ \E q \in Questions : LogShort /\ request_clarification(q) /\ UNCHANGED driverVars
    \/ \E a \in Answers : LogShort /\ provide_clarification(a) /\ UNCHANGED driverVars
    \/ \E t \in SuccessTools : LogShort /\ mark_tool_success(t) /\ UNCHANGED driverVars
    \/ \E c \in CheckInputs : LogShort /\ validate_tool_results(c) /\ UNCHANGED driverVars
    \/ LogShort /\ reset /\ UNCHANGED driverVars
    \/ \E r \in Requirements : LogShort /\ assign_request(r) /\ UNCHANGED driverVars

SpecWide == Init /\ [][NextWide]_vars

\* The validation gate: advance() and validate_tool_results with every
\* small dict of checks, on a log long enough for a second execution
\* attempt.
NextGate ==
    \/ \E reason \in AdvanceReasons :
          advance(reason) /\ LogFits(MaxGateHistory)
          /\ UNCHANGED driverVars
    \/ \E c \in GateChecks :
          validate_tool_results(c) /\ LogFits(MaxGateHistory)
          /\ UNCHANGED driverVars

SpecGate == Init /\ [][NextGate]_vars

\* ------------------------------------------------ the private functions
\* _determine_next_phase and _can_transition_to read phase, current_error
\* and clarification_needed only.  InitFn draws these three fields from
\* every combination of the 14 phases, an absent or present error with
\* retry_count 0..MaxProbeRetry and an absent, empty or non-empty
\* question; the actions call the functions and the status predicates and record what they
\* return.
ProbeErrors ==
    {None} \cup
    { Some(ErrorContext(ty, m, t, n)) :
        ty \in ErrorTypes, m \in ErrorMessages, t \in ToolNames,
        n \in 0..MaxProbeRetry }

ProbeQuestions == {None} \cup { Some(q) : q \in Questions }

InitFn ==
    /\ phase \in Phase
    /\ current_error \in ProbeErrors
    /\ clarification_needed \in ProbeQuestions
    /\ destination = None
    /\ dates = None
    /\ card = None
    /\ tools_called = <<>>
    /\ transition_history = <<>>
    /\ validation_results = <<>>
    /\ metadata = <<>>
    /\ successful_tools = <<>>
    /\ failed_tools = <<>>
    /\ ret = Outcome("__init__", <<>>, None, FALSE, None)
    /\ pc = "none"
    /\ twin = None

stateVars == <<phase, destination, dates, card, tools_called,
               transition_history, current_error, clarification_needed,
               validation_results, metadata, successful_tools, failed_tools>>

call_determine_next_phase ==
    /\ ret' = Outcome("_determine_next_phase", <<>>, None, FALSE,
                      _determine_next_phase(phase, current_error,
                                            clarification_needed))
    /\ UNCHANGED stateVars

call_can_transition_to(new_phase) ==
    /\ ret' = Outcome("_can_transition_to", <<new_phase>>, None, FALSE,
                      Some(_can_transition_to(phase, new_phase)))
    /\ UNCHANGED stateVars

call_is_in_error_state ==
    /\ ret' = Outcome("is_in_error_state", <<>>, None, FALSE,
                      Some(is_in_error_state(phase)))
    /\ UNCHANGED stateVars

call_is_awaiting_user ==
    /\ ret' = Outcome("is_awaiting_user", <<>>, None, FALSE,
                      Some(is_awaiting_user(phase)))
    /\ UNCHANGED stateVars

call_can_proceed ==
    /\ ret' = Outcome("can_proceed", <<>>, None, FALSE,
                      Some(can_proceed(phase)))
    /\ UNCHANGED stateVars

NextFn ==
    \/ call_determine_next_phase /\ UNCHANGED driverVars
    \/ \E new_phase \in Phase : call_can_transition_to(new_phase) /\ UNCHANGED driverVars
    \/ call_is_in_error_state /\ UNCHANGED driverVars
    \/ call_is_awaiting_user /\ UNCHANGED driverVars
    \/ call_can_proceed /\ UNCHANGED driverVars

SpecFn == InitFn /\ [][NextFn]_vars

\* ------------------------------------------------------------ run_request
\* The request flow of main.py on its own controller: pc names the next
\* statement.  The tool plugins and the synthesizer catch their own
\* exceptions and return an error value, so only advance() can raise here;
\* a raise ends the flow in the except branch.
InitRun ==
    /\ phase = "Init"
    /\ destination = None
    /\ dates = None
    /\ card = None
    /\ tools_called = <<>>
    /\ transition_history = <<>>
    /\ current_error = None
    /\ clarification_needed = None
    /\ validation_results = <<>>
    /\ metadata = <<>>
    /\ successful_tools = <<>>
    /\ failed_tools = <<>>
    /\ ret = Outcome("__init__", <<>>, None, FALSE, None)
    /\ pc = "assign"
    /\ twin = None

\* state.destination / dates / card = requirements[...]
run_assign(requirements) ==
    /\ pc = "assign"
    /\ assign_request(requirements)
    /\ pc' = "advance_1"

\* One of the five state.advance() statements.
run_advance(at, after) ==
    /\ pc = at
    /\ advance("Normal progression")
    /\ pc' = IF ret'.raised THEN "failed" ELSE after

\* tools_to_call is the four tools when a destination was specified, else
\* empty; state.tools_called = tools_to_call
run_plan ==
    /\ pc = "plan"
    /\ tools_called' =
           IF Truthy(destination) /\ Val(destination) /= "Not specified"
           THEN <<"weather", "fx", "search", "card">>
           ELSE <<>>
    /\ ret' = Outcome("plan", <<>>, None, FALSE, None)
    /\ pc' = "advance_3"
    /\ UNCHANGED <<phase, requestVars, transition_history, current_error,
                   clarification_needed, validation_results, metadata,
                   successful_tools, failed_tools>>

\* The tool plugins named in tools_to_call are called; the controller is
\* not told of their results.
run_execute ==
    /\ pc = "execute"
    /\ ret' = Outcome("execute", <<tools_called>>, None, FALSE, None)
    /\ pc' = "advance_4"
    /\ UNCHANGED stateVars

\* trip_plan_json = synthesize_to_tripplan(tool_results, requirements)
run_synthesize ==
    /\ pc = "synthesize"
    /\ ret' = Outcome("synthesize_to_tripplan", <<>>, None, FALSE, None)
    /\ pc' = "advance_5"
    /\ UNCHANGED stateVars

NextRun ==
    \/ \E r \in ExtractedRequirements : run_assign(r) /\ UNCHANGED twin
    \/ run_advance("advance_1", "advance_2") /\ UNCHANGED twin
    \/ run_advance("advance_2", "plan") /\ UNCHANGED twin
    \/ run_plan /\ UNCHANGED twin
    \/ run_advance("advance_3", "execute") /\ UNCHANGED twin
    \/ run_execute /\ UNCHANGED twin
    \/ run_advance("advance_4", "synthesize") /\ UNCHANGED twin
    \/ run_synthesize /\ UNCHANGED twin
    \/ run_advance("advance_5", "returned") /\ UNCHANGED twin

SpecRun == InitRun /\ [][NextRun]_vars

\* ------------------------------------------------- reset() against __init__
\* One controller is used for a while and then reset(); a second one is
\* created with AgentState().  From then on every call made on the first is
\* made on the second with the same arguments.  The variables hold the
\* controller being called, twin holds the other one; base is the length
\* of the first controller's log right after its reset().
Snapshot(base) ==
    [ phase |-> phase, destination |-> destination, dates |-> dates,
      card |-> card, tools_called |-> tools_called,
      transition_history |-> transition_history,
      current_error |-> current_error,
      clarification_needed |-> clarification_needed,
      validation_results |-> validation_results, metadata |-> metadata,
      successful_tools |-> successful_tools, failed_tools |-> failed_tools,
      ret |-> ret, base |-> base ]

Load(c) ==
    /\ phase' = c.phase
    /\ destination' = c.destination
    /\ dates' = c.dates
    /\ card' = c.card
    /\ tools_called' = c.tools_called
    /\ transition_history' = c.transition_history
    /\ current_error' = c.current_error
    /\ clarification_needed' = c.clarification_needed
    /\ validation_results' = c.validation_results
    /\ metadata' = c.metadata
    /\ successful_tools' = c.successful_tools
    /\ failed_tools' = c.failed_tools
    /\ ret' = c.ret

\* AgentState()
NewAgentState(base) ==
    [ phase |-> "Init", destination |-> None, dates |-> None, card |-> None,
      tools_called |-> <<>>, transition_history |-> <<>>,
      current_error |-> None, clarification_needed |-> None,
      validation_results |-> <<>>, metadata |-> <<>>,
      successful_tools |-> <<>>, failed_tools |-> <<>>,
      ret |-> Outcome("__init__", <<>>, None, FALSE, None), base |-> base ]

\* Any public operation, with the narrow inputs.
PublicCall ==
    \/ \E reason \in AdvanceReasons : advance(reason)
    \/ \E t \in OneTool, m \in ErrorMessages, ty \in ErrorTypes :
          handle_tool_error(t, m, ty)
    \/ \E q \in OneQuestion : request_clarification(q)
    \/ \E a \in Answers : provide_clarification(a)
    \/ \E t \in OneSuccessTool : mark_tool_success(t)
    \/ \E c \in CheckInputs : validate_tool_results(c)
    \/ reset

\* The call described by an Outcome, made again.
Replay(call) ==
    \/ call.op = "advance" /\ advance(call.args[1])
    \/ call.op = "handle_tool_error"
          /\ handle_tool_error(call.args[1], call.args[2], call.args[3])
    \/ call.op = "request_clarification"
          /\ request_clarification(call.args[1])
    \/ call.op = "provide_clarification"
          /\ provide_clarification(call.args[1])
    \/ call.op = "mark_tool_success" /\ mark_tool_success(call.args[1])
    \/ call.op = "validate_tool_results"
          /\ validate_tool_results(call.args[1])
    \/ call.op = "reset" /\ reset

InitTwin ==
    /\ phase = "Init"
    /\ destination = None
    /\ dates = None
    /\ card = None
    /\ tools_called = <<>>
    /\ transition_history = <<>>
    /\ current_error = None
    /\ clarification_needed = None
    /\ validation_results = <<>>
    /\ metadata = <<>>
    /\ successful_tools = <<>>
    /\ failed_tools = <<>>
    /\ ret = Outcome("__init__", <<>>, None, FALSE, None)
    /\ pc = "before"
    /\ twin = None

\* The first controller in use before the compared reset().
use_before ==
    /\ pc = "before"
    /\ \/ PublicCall
       \/ \E r \in Requirements : assign_request(r)
    /\ Len(transition_history') <= MaxPreHistory
    /\ UNCHANGED driverVars

\* The compared reset(); the second controller is created.
reset_and_create ==
    /\ pc = "before"
    /\ reset
    /\ twin' = NewAgentState(Len(transition_history'))
    /\ pc' = "call_first"

\* A call on the first controller.
call_first ==
    /\ pc = "call_first"
    /\ PublicCall
    /\ Len(transition_history') <= twin.base + MaxTwinSteps
    /\ pc' = "to_second"
    /\ UNCHANGED twin

\* The controllers change places.
to_second ==
    /\ pc = "to_second"
    /\ Load(twin)
    /\ twin' = Snapshot(twin.base)
    /\ pc' = "call_second"

\* The same call on the second controller.
call_second ==
    /\ pc = "call_second"
    /\ Replay(twin.ret)
    /\ pc' = "compare"
    /\ UNCHANGED twin

to_first ==
    /\ pc = "compare"
    /\ Load(twin)
    /\ twin' = Snapshot(twin.base)
    /\ pc' = "call_first"

NextTwin ==
    \/ use_before
    \/ reset_and_create
    \/ call_first
    \/ to_second
    \/ call_second
    \/ to_first

SpecTwin == InitTwin /\ [][NextTwin]_vars

\* ================================================================== claims
\* The transition-validity rules as the specification words them: the three
\* always-reachable phases, the Done-to-Init exception, and the adjacency
\* list.
SpecAdjacency ==
    [ p \in Phase |->
        CASE p = "Init" -> {"ClarifyRequirements"}
          [] p = "ClarifyRequirements" ->
                {"PlanTools", "AwaitingUserClarification"}
          [] p = "PlanTools" -> {"ExecuteTools", "CheckingAvailability"}
          [] p = "ExecuteTools" ->
                {"ValidatingResults", "HandlingToolError", "Synthesize"}
          [] p = "ValidatingResults" -> {"Synthesize", "RetryingTools"}
          [] p = "Synthesize" -> {"Done", "TranslatingContent"}
          [] p = "RetryingTools" -> {"ExecuteTools", "EscalatingError"}
          [] p = "HandlingToolError" -> {"RetryingTools", "EscalatingError"}
          [] p = "AwaitingUserClarification" -> {"ClarifyRequirements"}
          [] p = "CheckingAvailability" -> {"PlanTools", "SchedulingEvent"}
          [] p = "TranslatingContent" -> {"Synthesize"}
          [] p = "SchedulingEvent" -> {"Done"}
          [] p = "EscalatingError" -> {"Done"}
          [] p = "Done" -> {"Init"} ]

SpecPermits(cur, new) ==
    \/ new \in {"HandlingToolError", "EscalatingError",
                "AwaitingUserClarification"}
    \/ (cur = "Done" /\ new = "Init")
    \/ new \in SpecAdjacency[cur]

PublicOps ==
    {"advance", "provide_clarification", "validate_tool_results",
     "request_clarification", "handle_tool_error"}

\* C1: a public operation that asks for a move the validity rules do not
\* permit raises, and leaves phase and transition_history as they were
\* before the call; an operation that raises has asked for such a move.
C1_InvalidMoveAborts ==
    [][ (ret'.op \in PublicOps /\ IsSet(ret'.move)) =>
           /\ ret'.raised <=> ~SpecPermits(phase, Val(ret'.move))
           /\ ret'.raised =>
                  (phase' = phase /\ transition_history' = transition_history)
      ]_vars

\* C1 witness: validate_tool_results with all checks true on a fresh
\* controller asked for Init -> Synthesize and raised.
C1_Witness ==
    /\ ret.op = "validate_tool_results"
    /\ ret.move = Some("Synthesize")
    /\ ret.raised
    /\ phase = "Init"
    /\ transition_history = <<>>

\* C2 (as claimed): an operation that raises the transition-validity error
\* leaves the entire AgentState equal to its value before the call.
C2_FailedCallLeavesStateUntouched ==
    [][ ret'.raised =>
           /\ phase' = phase
           /\ transition_history' = transition_history
           /\ current_error' = current_error
           /\ clarification_needed' = clarification_needed
           /\ validation_results' = validation_results
           /\ metadata' = metadata
           /\ tools_called' = tools_called
           /\ successful_tools' = successful_tools
           /\ failed_tools' = failed_tools
      ]_vars

\* The priority order of next-phase resolution as the specification words
\* it: "set" is "not None".
SpecNormalProgression ==
    [ p \in Phase |->
        CASE p = "Init" -> Some("ClarifyRequirements")
          [] p = "ClarifyRequirements" -> Some("PlanTools")
          [] p = "PlanTools" -> Some("ExecuteTools")
          [] p = "ExecuteTools" -> Some("ValidatingResults")
          [] p = "ValidatingResults" -> Some("Synthesize")
          [] p = "Synthesize" -> Some("Done")
          [] p = "RetryingTools" -> Some("ExecuteTools")
          [] p = "AwaitingUserClarification" -> Some("ClarifyRequirements")
          [] p = "CheckingAvailability" -> Some("PlanTools")
          [] p = "TranslatingContent" -> Some("Synthesize")
          [] p = "SchedulingEvent" -> Some("Done")
          [] p = "HandlingToolError" -> Some("RetryingTools")
          [] OTHER -> None ]

SpecNextPhase(ph, err, clar) ==
    IF err /= None /\ Val(err).retry_count < Val(err).max_retries
    THEN Some("RetryingTools")
    ELSE IF err /= None THEN Some("EscalatingError")
    ELSE IF clar /= None THEN Some("AwaitingUserClarification")
    ELSE SpecNormalProgression[ph]

\* C3 (as claimed): for every combination of phase, current_error and
\* clarification_needed the next phase is the one the priority order gives:
\* retryable error, exhausted error, pending clarification, then the
\* normal-progression table.
C3_PriorityOrder ==
    ret.op = "_determine_next_phase" =>
        ret.value = SpecNextPhase(phase, current_error, clarification_needed)

\* C4: for every pair (current, new) of the 14 phases the move is accepted
\* exactly when the validity rules of the specification permit it.
C4_ValidityRules ==
    ret.op = "_can_transition_to" =>
        Val(ret.value) = SpecPermits(phase, ret.args[1])

\* C4 witness: Init -> Synthesize was asked about and rejected.
C4_Witness ==
    /\ ret.op = "_can_transition_to"
    /\ phase = "Init"
    /\ ret.args = <<"Synthesize">>
    /\ ret.value = Some(FALSE)

\* The order of the phases of an undisturbed run.
HappyPath ==
    <<"Init", "ClarifyRequirements", "PlanTools", "ExecuteTools",
      "ValidatingResults", "Synthesize", "Done">>

IsAdvanceRecord(r) == r.reason \in { <<a>> : a \in AdvanceReasons }
IsPassRecord(r) ==
    r.reason = <<"All validations passed">>
    /\ r.from_phase = "ValidatingResults"

\* Every phase change so far was made by advance(), or by an all-true
\* validate_tool_results at ValidatingResults: no error was reported, no
\* clarification requested or provided, no reset made.
OnlyAdvancing ==
    \A i \in 1..Len(transition_history) :
        IsAdvanceRecord(transition_history[i])
        \/ IsPassRecord(transition_history[i])

\* C5: on a fresh controller with no error reported and no clarification
\* requested, the phase changes follow Init, ClarifyRequirements, PlanTools,
\* ExecuteTools, ValidatingResults, Synthesize, Done in that order, Done is
\* reached after exactly six of them, and no advance() fails.
C5_UndisturbedRun ==
    OnlyAdvancing =>
        /\ Len(transition_history) <= 6
        /\ \A i \in 1..Len(transition_history) :
              /\ transition_history[i].from_phase = HappyPath[i]
              /\ transition_history[i].to_phase = HappyPath[i + 1]
        /\ phase = HappyPath[Len(transition_history) + 1]
        /\ current_error = None
        /\ clarification_needed = None
        /\ (ret.op = "advance" => ~ret.raised)

\* C5 witness: Done was reached by advance() after six phase changes, the
\* fifth made by validate_tool_results.
C5_Witness ==
    /\ OnlyAdvancing
    /\ phase = "Done"
    /\ ret.op = "advance"
    /\ Len(transition_history) = 6
    /\ IsPassRecord(transition_history[5])

Occurrences(list, x) == Cardinality({i \in 1..Len(list) : list[i] = x})

\* C6: handle_tool_error never raises, leaves phase = HandlingToolError,
\* current_error.failed_tool = tool and tool exactly once in failed_tools;
\* when no error was active for that tool, the context has retry_count 0
\* and can be retried.
C6_ErrorReportAlwaysAccepted ==
    [][ ret'.op = "handle_tool_error" =>
          LET tool == ret'.args[1] IN
          /\ ~ret'.raised
          /\ phase' = "HandlingToolError"
          /\ current_error' /= None
          /\ Val(current_error').failed_tool = tool
          /\ Occurrences(failed_tools', tool) = 1
          /\ (~(current_error /= None
                /\ Val(current_error).failed_tool = tool) =>
                 /\ Val(current_error').retry_count = 0
                 /\ Val(current_error').retry_count
                        < Val(current_error').max_retries)
      ]_vars

\* C6 witness: a tool was reported failed a second time, with a
\* clarification pending, and the phase is HandlingToolError.
C6_Witness ==
    /\ ret.op = "handle_tool_error"
    /\ phase = "HandlingToolError"
    /\ Truthy(clarification_needed)
    /\ Val(current_error).retry_count = 1
    /\ Len(failed_tools) = 2

IsErrorRecord(r, tool) ==
    r.to_phase = "HandlingToolError" /\ r.reason[1] = "Tool '"
    /\ r.metadata.tool = tool

\* The number of records at the end of the log that report the tool.
RECURSIVE TrailingReports(_, _)
TrailingReports(h, tool) ==
    IF h = <<>> \/ ~IsErrorRecord(h[Len(h)], tool) THEN 0
    ELSE 1 + TrailingReports(SubSeq(h, 1, Len(h) - 1), tool)

\* C7: a report for the tool of the active error adds exactly 1 to
\* retry_count and keeps the rest of the context; a report with no active
\* error or for another tool installs a context for the tool with
\* retry_count 0.  So k >= 1 consecutive reports for a tool, begun on a
\* fresh controller or right after a report for another tool, leave
\* retry_count = k - 1.
C7_RetryCountScopedToTool ==
    /\ [][ ret'.op = "handle_tool_error" =>
             LET tool == ret'.args[1] IN
             IF current_error /= None
                /\ Val(current_error).failed_tool = tool
             THEN current_error' =
                     Some([Val(current_error) EXCEPT
                              !.retry_count =
                                  Val(current_error).retry_count + 1])
             ELSE /\ Val(current_error').failed_tool = tool
                  /\ Val(current_error').retry_count = 0
                  /\ Val(current_error').error_message = ret'.args[2]
                  /\ Val(current_error').error_type = ret'.args[3]
        ]_vars
    /\ [](\A tool \in ToolNames :
            LET k == TrailingReports(transition_history, tool)
                n == Len(transition_history)
            IN  (k >= 1 /\ (k = n \/ \E other \in ToolNames \ {tool} :
                               IsErrorRecord(transition_history[n - k],
                                             other)))
                => Val(current_error).retry_count = k - 1)

\* C7 witness: the same tool was reported twice after another tool had
\* been reported; the count is 1, not 2.
C7_Witness ==
    /\ ret.op = "handle_tool_error"
    /\ Len(transition_history) = 3
    /\ IsErrorRecord(transition_history[1], "weather")
    /\ TrailingReports(transition_history, "search") = 2
    /\ Val(current_error).retry_count = 1

\* C8: with the retry budget of the active error exhausted
\* (retry_count >= max_retries), advance() does not raise and leaves the
\* phase at EscalatingError, whatever the phase was.
C8_ExhaustedBudgetEscalates ==
    [][ (ret'.op = "advance"
         /\ current_error /= None
         /\ Val(current_error).retry_count >= Val(current_error).max_retries)
        => (~ret'.raised /\ phase' = "EscalatingError")
      ]_vars

\* C8 witness: advance() escalated from AwaitingUserClarification, the
\* exhausted error taking precedence over the pending question.
C8_Witness ==
    /\ ret.op = "advance"
    /\ phase = "EscalatingError"
    /\ transition_history[Len(transition_history)].from_phase =
          "AwaitingUserClarification"
    /\ Truthy(clarification_needed)

\* C9: in every reachable state, phase = EscalatingError implies that an
\* error is active and its retry_count has reached max_retries.
C9_EscalationOnlyWhenExhausted ==
    phase = "EscalatingError" =>
        /\ current_error /= None
        /\ Val(current_error).retry_count >= Val(current_error).max_retries

\* C9 witness: the phase is EscalatingError, entered from
\* HandlingToolError.
C9_Witness ==
    /\ phase = "EscalatingError"
    /\ transition_history[Len(transition_history)].from_phase =
          "HandlingToolError"

\* C10 (as claimed): after escalation the workflow proceeds to Done: an
\* advance() made in EscalatingError changes the phase to Done.
C10_EscalationProceedsToDone ==
    [][ (ret'.op = "advance" /\ phase = "EscalatingError")
        => phase' = "Done" ]_vars

LastRecord == transition_history[Len(transition_history)]

\* C11 (as claimed): with a retryable error active, the advance() after the
\* one that moved HandlingToolError to RetryingTools does not raise, moves
\* RetryingTools to ExecuteTools and clears current_error.
C11_RetryReturnsToExecution ==
    [][ (/\ ret'.op = "advance"
         /\ ret.op = "advance"
         /\ phase = "RetryingTools"
         /\ transition_history /= <<>>
         /\ LastRecord.from_phase = "HandlingToolError"
         /\ current_error /= None
         /\ Val(current_error).retry_count < Val(current_error).max_retries)
        => (/\ ~ret'.raised
            /\ phase' = "ExecuteTools"
            /\ current_error' = None)
      ]_vars

\* C12: request_clarification(q) never raises and leaves
\* clarification_needed = q and phase = AwaitingUserClarification; a
\* provide_clarification(a) made in AwaitingUserClarification does not
\* raise, leaves phase = ClarifyRequirements, clarification_needed unset
\* and metadata["last_clarification"] = a.
C12_ClarificationRoundTrip ==
    [][ /\ ret'.op = "request_clarification" =>
             /\ ~ret'.raised
             /\ clarification_needed' = Some(ret'.args[1])
             /\ phase' = "AwaitingUserClarification"
        /\ (ret'.op = "provide_clarification"
            /\ phase = "AwaitingUserClarification") =>
             /\ ~ret'.raised
             /\ phase' = "ClarifyRequirements"
             /\ clarification_needed' = None
             /\ "last_clarification" \in DOMAIN metadata'
             /\ metadata'["last_clarification"] = ret'.args[1]
      ]_vars

\* C12 witness: an answer was provided to a question asked while an error
\* was being handled; the phase is ClarifyRequirements.
C12_Witness ==
    /\ ret.op = "provide_clarification"
    /\ ~ret.raised
    /\ phase = "ClarifyRequirements"
    /\ Len(transition_history) >= 3
    /\ transition_history[Len(transition_history) - 1].reason =
          <<"Need user clarification">>
    /\ transition_history[Len(transition_history) - 1].from_phase =
          "HandlingToolError"
    /\ metadata = [last_clarification |-> "Paris"]

\* C13 (as claimed): in every reachable state where clarification_needed
\* is set and no error is active, advance() leaves the phase at
\* AwaitingUserClarification.
C13_PendingClarificationSuspends ==
    [][ (ret'.op = "advance"
         /\ clarification_needed /= None
         /\ current_error = None)
        => phase' = "AwaitingUserClarification" ]_vars

\* The keys of the entries whose value is false.
FalseKeys(checks) == { checks[i].k : i \in { j \in 1..Len(checks) : ~checks[j].v } }
SeqRange(q) == { q[i] : i \in 1..Len(q) }

\* C14: in ValidatingResults, validate_tool_results(checks) never raises
\* and stores checks as validation_results; if every value is true (also
\* for the empty dict) it returns true and the phase is Synthesize;
\* otherwise it returns false, the phase is RetryingTools and the metadata
\* of the appended record lists exactly the false-valued keys, each once.
C14_ValidationGate ==
    [][ (ret'.op = "validate_tool_results" /\ phase = "ValidatingResults") =>
          LET checks == ret'.args[1]
              record == transition_history'[Len(transition_history')]
          IN  /\ ~ret'.raised
              /\ validation_results' = checks
              /\ Len(transition_history') = Len(transition_history) + 1
              /\ IF FalseKeys(checks) = {}
                 THEN /\ ret'.value = Some(TRUE)
                      /\ phase' = "Synthesize"
                      /\ record.reason = <<"All validations passed">>
                 ELSE /\ ret'.value = Some(FALSE)
                      /\ phase' = "RetryingTools"
                      /\ SeqRange(record.metadata.failed_checks)
                            = FalseKeys(checks)
                      /\ Len(record.metadata.failed_checks)
                            = Cardinality(FalseKeys(checks))
      ]_vars

\* C14 witness: a dict with one true and one false check was rejected at
\* ValidatingResults and only the false key was recorded.
C14_Witness ==
    /\ ret.op = "validate_tool_results"
    /\ ret.value = Some(FALSE)
    /\ phase = "RetryingTools"
    /\ validation_results =
          <<[k |-> "weather", v |-> TRUE], [k |-> "search", v |-> FALSE]>>
    /\ LastRecord.from_phase = "ValidatingResults"
    /\ LastRecord.metadata.failed_checks = <<"search">>

\* The record before the last one.
PrevRecord == transition_history[Len(transition_history) - 1]

\* C15: when validate_tool_results returns false at ValidatingResults
\* with no active error and no pending clarification, the phase is
\* RetryingTools; the advance() that follows enters ExecuteTools, and the
\* advance() after that one returns to ValidatingResults.
C15_ValidationFailureReruns ==
    [][ /\ ( /\ ret'.op = "validate_tool_results"
             /\ phase = "ValidatingResults"
             /\ ret'.value = Some(FALSE)
             /\ current_error = None /\ clarification_needed = None )
          => phase' = "RetryingTools"
        /\ ( /\ ret'.op = "advance"
             /\ ret.op = "validate_tool_results"
             /\ ret.value = Some(FALSE)
             /\ phase = "RetryingTools"
             /\ current_error = None /\ clarification_needed = None )
          => (~ret'.raised /\ phase' = "ExecuteTools")
        /\ ( /\ ret'.op = "advance"
             /\ ret.op = "advance"
             /\ phase = "ExecuteTools"
             /\ Len(transition_history) >= 2
             /\ LastRecord.from_phase = "RetryingTools"
             /\ PrevRecord.from_phase = "ValidatingResults"
             /\ PrevRecord.to_phase = "RetryingTools"
             /\ current_error = None /\ clarification_needed = None )
          => (~ret'.raised /\ phase' = "ValidatingResults")
      ]_vars

\* C15 witness: the workflow is back in ValidatingResults two advance()
\* calls after a failed validation.
C15_Witness ==
    /\ ret.op = "advance" /\ ~ret.raised
    /\ phase = "ValidatingResults"
    /\ Len(transition_history) >= 3
    /\ LastRecord.from_phase = "ExecuteTools"
    /\ PrevRecord.from_phase = "RetryingTools"
    /\ PrevRecord.to_phase = "ExecuteTools"
    /\ transition_history[Len(transition_history) - 2].from_phase
          = "ValidatingResults"
    /\ transition_history[Len(transition_history) - 2].to_phase
          = "RetryingTools"

\* C16: reset() never raises; it sets phase to Init, puts destination,
\* dates, card, tools_called, successful_tools, failed_tools, current_error,
\* clarification_needed, validation_results and metadata back to their
\* initial values, and leaves transition_history equal to its previous
\* contents followed by exactly one record with reason "Manual reset".
C16_ResetClearsAllButLog ==
    [][ ret'.op = "reset" =>
          /\ ~ret'.raised
          /\ phase' = "Init"
          /\ destination' = None /\ dates' = None /\ card' = None
          /\ tools_called' = <<>>
          /\ successful_tools' = <<>>
          /\ failed_tools' = <<>>
          /\ current_error' = None
          /\ clarification_needed' = None
          /\ validation_results' = <<>>
          /\ metadata' = <<>>
          /\ Len(transition_history') = Len(transition_history) + 1
          /\ SubSeq(transition_history', 1, Len(transition_history))
                = transition_history
          /\ transition_history'[Len(transition_history')].reason
                = <<"Manual reset">>
          /\ transition_history'[Len(transition_history')].to_phase = "Init"
      ]_vars

\* C16 witness: reset() was called after an answered clarification that
\* followed a tool error, so request-independent fields had been filled;
\* everything is cleared and the earlier records are still in the log.
C16_Witness ==
    /\ ret.op = "reset"
    /\ Len(transition_history) >= 3
    /\ LastRecord.reason = <<"Manual reset">>
    /\ PrevRecord.to_phase = "ClarifyRequirements"
    /\ PrevRecord.from_phase = "AwaitingUserClarification"
    /\ transition_history[1].to_phase = "HandlingToolError"
    /\ phase = "Init"
    /\ metadata = <<>> /\ failed_tools = <<>> /\ current_error = None
    /\ destination = None

\* C17: the record appended by reset() has from = the phase the controller
\* was in when reset() was called, and to = Init.
C17_ResetRecordsDeparturePhase ==
    [][ ret'.op = "reset" =>
          /\ transition_history'[Len(transition_history')].from_phase = phase
          /\ transition_history'[Len(transition_history')].to_phase = "Init"
      ]_vars

\* C18: in every state with phase = Done, advance() does nothing: it does
\* not raise and changes neither phase nor transition_history; and any
\* step of a public operation that takes the phase from Done to Init is a
\* reset().
C18_DoneLeftOnlyByReset ==
    [][ /\ (ret'.op = "advance" /\ phase = "Done") =>
              /\ ~ret'.raised
              /\ phase' = "Done"
              /\ transition_history' = transition_history
        /\ (phase = "Done" /\ phase' = "Init") => ret'.op = "reset"
      ]_vars

\* C18 witness: advance() was called in Done, found no next phase and
\* left the machine in Done.
C18_Witness ==
    /\ ret.op = "advance" /\ ~ret.raised
    /\ ret.move = None
    /\ phase = "Done"
    /\ LastRecord.to_phase = "Done"

\* Every record in the log was appended by advance().
AdvanceOnlyLog(h) == \A i \in 1..Len(h) : IsAdvanceRecord(h[i])

\* The records of h form one path from Init to ph.
ChainsFromInit(h, ph) ==
    IF h = <<>> THEN ph = "Init"
    ELSE /\ h[1].from_phase = "Init"
         /\ \A i \in 2..Len(h) : h[i].from_phase = h[i - 1].to_phase
         /\ h[Len(h)].to_phase = ph

\* C19: while only advance() has made transitions on a fresh controller,
\* each advance() lengthens transition_history by one exactly when it
\* changes the phase (so the length equals the number of phase changes),
\* the first record's from is Init, each later record's from is the
\* previous record's to, and the last record's to is the current phase.
C19_AdvanceLogIsAChain ==
    [][ ( /\ ret'.op = "advance"
          /\ AdvanceOnlyLog(transition_history)
          /\ AdvanceOnlyLog(transition_history') )
        => /\ Len(transition_history') =
                Len(transition_history) + (IF phase' /= phase THEN 1 ELSE 0)
           /\ ChainsFromInit(transition_history, phase)
           /\ ChainsFromInit(transition_history', phase')
      ]_vars

\* C19 witness: seven advance() calls made six phase changes and six
\* records, the last call being the one that changed nothing.
C19_Witness ==
    /\ AdvanceOnlyLog(transition_history)
    /\ Len(transition_history) = 6
    /\ ret.op = "advance" /\ ret.move = None
    /\ ChainsFromInit(transition_history, "Done")
    /\ phase = "Done"

\* The operations that can write to the log.
LoggingOps ==
    {"advance", "handle_tool_error", "request_clarification",
     "provide_clarification", "validate_tool_results", "reset"}

\* C20 (as stated): over any sequence of public operations a record is
\* appended exactly when the phase changes, so every record has from
\* different from to and the log length equals the number of phase changes.
C20_RecordIffPhaseChange ==
    [][ ret'.op \in LoggingOps =>
          /\ Len(transition_history') =
                Len(transition_history) + (IF phase' /= phase THEN 1 ELSE 0)
          /\ \A i \in 1..Len(transition_history') :
                transition_history'[i].from_phase
                    /= transition_history'[i].to_phase
      ]_vars

\* C20 (amended): every phase change made by a public operation appends
\* exactly one record; an operation appends at most one record, and the
\* record it appends has to = the phase after the call; a record is also
\* appended by calls that leave the phase unchanged, so the log length is
\* at least the number of phase changes.
C20_PhaseChangeIsLogged ==
    [][ ret'.op \in LoggingOps =>
          /\ phase' /= phase =>
                Len(transition_history') = Len(transition_history) + 1
          /\ Len(transition_history') /= Len(transition_history) =>
                /\ Len(transition_history') = Len(transition_history) + 1
                /\ transition_history'[Len(transition_history')].to_phase
                      = phase'
      ]_vars

\* C20 witness: a second handle_tool_error in HandlingToolError appended a
\* record whose from and to are both HandlingToolError.
C20_Witness ==
    /\ ret.op = "handle_tool_error"
    /\ Len(transition_history) >= 2
    /\ LastRecord.from_phase = "HandlingToolError"
    /\ LastRecord.to_phase = "HandlingToolError"
    /\ PrevRecord.to_phase = "HandlingToolError"
    /\ phase = "HandlingToolError"

\* Whether some record of the log was written by reset().
HasResetRecord ==
    \E i \in 1..Len(transition_history) :
        transition_history[i].reason = <<"Manual reset">>

\* C21: transition_history is append-only: across every call, reset() and
\* failing calls included, the log before the call is a prefix of the log
\* after it, and the call adds at most one record.
C21_LogIsAppendOnly ==
    [][ /\ Len(transition_history') >= Len(transition_history)
        /\ Len(transition_history') <= Len(transition_history) + 1
        /\ \A i \in 1..Len(transition_history) :
              transition_history'[i] = transition_history[i]
      ]_vars

\* C21 witness: a call failed on a controller whose log holds a reset
\* record followed by a later record.
C21_Witness ==
    /\ ret.raised
    /\ Len(transition_history) >= 2
    /\ HasResetRecord
    /\ LastRecord.reason /= <<"Manual reset">>

\* C22: in every reachable state, phase = ExecuteTools implies that
\* current_error is unset, and phase = ClarifyRequirements implies that
\* clarification_needed is unset.
C22_PhaseEntryClearing ==
    /\ phase = "ExecuteTools" => current_error = None
    /\ phase = "ClarifyRequirements" => clarification_needed = None

\* C22 witness: advance() entered ClarifyRequirements from
\* AwaitingUserClarification while a question was still stored, and the
\* entry cleared it.
C22_Witness ==
    /\ ret.op = "advance" /\ ~ret.raised
    /\ phase = "ClarifyRequirements"
    /\ LastRecord.from_phase = "AwaitingUserClarification"
    /\ clarification_needed = None

\* list is what old was, with at most one element added at the end.
KeepsOrder(old, list) ==
    /\ Len(list) >= Len(old)
    /\ Len(list) <= Len(old) + 1
    /\ \A i \in 1..Len(old) : list[i] = old[i]

\* C23: after mark_tool_success(tool), tool occurs exactly once in
\* tools_called and exactly once in successful_tools, the earlier entries
\* keep their places, a repeated call changes neither list, and the call
\* changes neither phase, transition_history, current_error,
\* clarification_needed nor failed_tools.
C23_MarkSuccessIdempotent ==
    [][ ret'.op = "mark_tool_success" =>
          LET tool == ret'.args[1]
          IN  /\ ~ret'.raised
              /\ Occurrences(tools_called', tool) = 1
              /\ Occurrences(successful_tools', tool) = 1
              /\ KeepsOrder(tools_called, tools_called')
              /\ KeepsOrder(successful_tools, successful_tools')
              /\ Occurrences(tools_called, tool) = 1
                    => tools_called' = tools_called
              /\ Occurrences(successful_tools, tool) = 1
                    => successful_tools' = successful_tools
              /\ UNCHANGED <<phase, transition_history, current_error,
                             clarification_needed, failed_tools>>
      ]_vars

\* C23 witness: the tool marked first was marked again after a second
\* tool, and both lists still hold the two tools once each in the order
\* of their first marking.
C23_Witness ==
    /\ ret.op = "mark_tool_success"
    /\ ret.args = <<"weather">>
    /\ tools_called = <<"weather", "fx">>
    /\ successful_tools = <<"weather", "fx">>

\* The three status predicates.
StatusOps == {"is_in_error_state", "is_awaiting_user", "can_proceed"}

\* C24: in each of the 14 phases, whatever current_error and
\* clarification_needed hold, is_in_error_state() is true iff phase is
\* HandlingToolError, RetryingTools or EscalatingError, is_awaiting_user()
\* is true iff phase is AwaitingUserClarification, can_proceed() is false
\* iff phase is AwaitingUserClarification, EscalatingError or Done; and the
\* three calls change nothing.
C24_StatusPredicates ==
    [][ ret'.op \in StatusOps =>
          /\ UNCHANGED stateVars
          /\ ~ret'.raised
          /\ ret'.op = "is_in_error_state" =>
                (ret'.value = Some(TRUE) <=>
                    (phase = "HandlingToolError" \/ phase = "RetryingTools"
                     \/ phase = "EscalatingError"))
          /\ ret'.op = "is_awaiting_user" =>
                (ret'.value = Some(TRUE) <=>
                    phase = "AwaitingUserClarification")
          /\ ret'.op = "can_proceed" =>
                (ret'.value = Some(FALSE) <=>
                    (phase = "AwaitingUserClarification"
                     \/ phase = "EscalatingError" \/ phase = "Done"))
          /\ ret'.value \in {Some(TRUE), Some(FALSE)}
      ]_vars

\* C24 witness: can_proceed() returned false in Done although no error is
\* active and a question is stored.
C24_Witness ==
    /\ ret.op = "can_proceed"
    /\ ret.value = Some(FALSE)
    /\ phase = "Done"
    /\ current_error = None
    /\ clarification_needed = Some("What is your destination?")

\* C25: in run_request the synthesizer is called only when the
\* controller's phase is Synthesize, and the advance() made after it
\* leaves the controller in Done.
C25_SynthesizerCalledInSynthesize ==
    /\ ret.op = "synthesize_to_tripplan" => phase = "Synthesize"
    /\ pc = "returned" => phase = "Done"

\* C26: advance() never raises: in every reachable state the phase chosen
\* by _determine_next_phase, when there is one, is a move that
\* _can_transition_to permits from the current phase.
C26_AdvanceNeverRaises ==
    /\ ret.op = "advance" => ~ret.raised
    /\ LET next_phase == _determine_next_phase(phase, current_error,
                                               clarification_needed)
       IN  IsSet(next_phase) => SpecPermits(phase, Val(next_phase))

\* C27: while current_error is set, a call other than reset() leaves it
\* set and does not put the phase in ExecuteTools; the only call after
\* which an error that was set is unset is reset().
C27_ErrorStaysUntilReset ==
    [][ current_error /= None =>
          \/ (ret'.op = "reset" /\ current_error' = None)
          \/ (ret'.op /= "reset" /\ current_error' /= None
              /\ phase' /= "ExecuteTools")
      ]_vars

\* C27 witness: the retry of a reported error was attempted from
\* RetryingTools and refused, the error still being set.
C27_Witness ==
    /\ ret.op = "advance" /\ ret.raised
    /\ phase = "RetryingTools"
    /\ current_error /= None
    /\ Len(transition_history) >= 2
    /\ PrevRecord.to_phase = "HandlingToolError"

\* C28: in every reachable state an active ErrorContext has
\* 0 <= retry_count <= max_retries.
C28_RetryCountWithinBudget ==
    current_error /= None =>
        /\ Val(current_error).retry_count >= 0
        /\ Val(current_error).retry_count <= Val(current_error).max_retries

\* The phases that no operation asks for.
UnusedPhases ==
    {"CheckingAvailability", "TranslatingContent", "SchedulingEvent"}

\* p is the current phase or the log shows a move into it.
Visited(p) ==
    \/ phase = p
    \/ \E i \in 1..Len(transition_history) :
          transition_history[i].to_phase = p

\* C29: CheckingAvailability, TranslatingContent and SchedulingEvent are
\* never entered by the public operations on a fresh controller, although
\* the adjacency list permits moves into them.
C29_UnusedPhasesNeverEntered ==
    /\ \A p \in UnusedPhases : ~Visited(p)
    /\ \E p \in UnusedPhases : \E q \in Phase : p \in SpecAdjacency[q]

\* C29 witness: advance() has reached PlanTools, from which the adjacency
\* list permits CheckingAvailability, and the controller has gone on to
\* ExecuteTools instead.
C29_Witness ==
    /\ ret.op = "advance"
    /\ phase = "ExecuteTools"
    /\ LastRecord.from_phase = "PlanTools"
    /\ _can_transition_to("PlanTools", "CheckingAvailability")

\* C30: after a reset() the controller and a new AgentState given the
\* same calls agree after each call on phase, current_error,
\* clarification_needed, validation_results, metadata, the request fields,
\* the three tool lists, the returned value and whether the call raised;
\* and the reset controller's log is its log up to and including the reset
\* record followed by the new controller's log.
C30_ResetBehavesLikeNew ==
    pc = "compare" =>
        /\ phase = twin.phase
        /\ current_error = twin.current_error
        /\ clarification_needed = twin.clarification_needed
        /\ validation_results = twin.validation_results
        /\ metadata = twin.metadata
        /\ destination = twin.destination
        /\ dates = twin.dates
        /\ card = twin.card
        /\ tools_called = twin.tools_called
        /\ successful_tools = twin.successful_tools
        /\ failed_tools = twin.failed_tools
        /\ ret = twin.ret
        /\ Len(twin.transition_history)
              = twin.base + Len(transition_history)
        /\ twin.transition_history[twin.base].reason = <<"Manual reset">>
        /\ \A i \in 1..Len(transition_history) :
              twin.transition_history[twin.base + i] = transition_history[i]

\* C30 witness: the first controller had an error reported before its
\* reset(); after the reset both controllers were taken through an error
\* report and an advance(), and are compared.
C30_Witness ==
    /\ pc = "compare"
    /\ twin.base = 2
    /\ twin.transition_history[1].to_phase = "HandlingToolError"
    /\ phase = "RetryingTools"
    /\ twin.phase = "RetryingTools"
    /\ Len(transition_history) = 2
    /\ ret.op = "advance"

====
